---- MODULE Spec2Model ----
(***************************************************************************)
(* Model of src/lib/reflection/reflect.ts: the reflection runner.          *)
(*                                                                         *)
(* One call of reflect(layout, opts) is modelled, from the call to the     *)
(* settling of the promise it returns.  Each listener of the child process *)
(* runs to completion (the event loop is single threaded), so one action   *)
(* is one event emitted by the runtime together with the listener the code *)
(* registered for it.                                                      *)
(***************************************************************************)
EXTENDS Integers, Sequences, FiniteSets, TLC

VARIABLES
  opts,      \* the opts argument of reflect(): usedPlugins, artifacts, onMainThread
  layout,    \* the layout argument of reflect(): projectRoot, data
  penv,      \* process.env of the parent
  pc,        \* position of the call: "idle", "awaitStart", "awaitChild", "done"
  promise,   \* the promise reflect() returned: "none", "pending", "resolved", "rejected"
  result,    \* the value the promise settled with
  appStarted,\* appRunner.start() has been called on the main thread
  plugins,   \* app.private.state.plugins
  cp,        \* the forked child process, NoChild before fork()
  observed,  \* history: the events the parent's runtime emitted on cp, in order
  terminal,  \* history: chunks the child wrote to an inherited stderr
  penv0,     \* history: process.env when reflect() was called
  stageAtStart, \* history: the reflection stage when appRunner.start() was called
  startOutcome \* history: how appRunner.start() ended, NotEnded before

vars == <<opts, layout, penv, pc, promise, result, appStarted, plugins, cp,
          observed, terminal, penv0, stageAtStart, startOutcome>>

(***************************************************************************)
(* Bounds and input sets                                                   *)
(***************************************************************************)
MaxEvents == 3

Undefined == "undefined"
Unset == "<unset>"

\* opts: { usedPlugins?: true; artifacts?: true; onMainThread?: boolean }
OptsSet ==
  [usedPlugins : {"true", Undefined},
   artifacts : {"true", Undefined},
   onMainThread : {"true", "false", Undefined}]

Layouts == {[projectRoot |-> "/app", data |-> d] : d \in {"d1", "d2"}}

StageVar == "NEXUS_REFLECTION_STAGE"
EnvNames == {"DEBUG", "NEXUS_REFLECTION_LAYOUT", StageVar}

PluginSet == {"p1", "p2"}
StartErrors == {"startErr", "startErr2"}
SerializedErrors == {"childErr"}
ProcessErrors == {"spawnErr"}
Chunks == {"c1", "c2"}
\* the code argument of the 'exit' listener: 0, 1, or null (killed by a signal)
ExitCodes == {"0", "1", "null"}

Messages ==
  {[type |-> "success-plugin", data |-> [plugins |-> {"p1"}]],
   [type |-> "success-typegen"]}
  \cup {[type |-> "error", data |-> [serializedError |-> e]] : e \in SerializedErrors}

TerminalTypes == {"success-typegen", "error"}

NoResult == [tag |-> "none"]
NoChild == [state |-> "none"]
NotEnded == [kind |-> "none"]

(***************************************************************************)
(* Values                                                                  *)
(***************************************************************************)
\* a JavaScript condition on an environment variable: unset and "" are falsy
Truthy(v) == v # Unset /\ v # ""

Error(msg) == [name |-> "Error", message |-> msg]

NotImplementedError ==
  Error("Not implemented. Reflection on plugins needs to be done on the main process for now.")

deserializeError(serializedError) == Error(serializedError)

\* the template string `Runner failed with exit code "${code}".`
ExitError(code) == [name |-> "Error", message |-> "Runner failed with exit code", code |-> code]

JSONstringify(data) == "json:" \o data

Success == [success |-> TRUE]
SuccessPlugins(ps) == [success |-> TRUE, plugins |-> ps]
Failure(err) == [success |-> FALSE, error |-> err]
Thrown(err) == [thrown |-> err]

\* { ...a, ...b }: the keys of b win
Spread(a, b) ==
  [k \in (DOMAIN a) \cup (DOMAIN b) |-> IF k \in DOMAIN b THEN b[k] ELSE a[k]]

(***************************************************************************)
(* ./stage                                                                 *)
(***************************************************************************)
getReflectionStageEnv(stage) == [k \in {StageVar} |-> stage]

setReflectionStage(stage) == penv' = [penv EXCEPT ![StageVar] = stage]

removeReflectionStage == penv' = [penv EXCEPT ![StageVar] = Unset]

(***************************************************************************)
(* The promise                                                             *)
(***************************************************************************)
\* a resolve that settles the promise again on every call
resolve_LastCallWins(value) ==
  promise' = "resolved" /\ result' = value /\ pc' = "done"

\* the resolve function of a promise: only the first call settles it
resolve(value) ==
  IF promise = "pending"
  THEN promise' = "resolved" /\ result' = value /\ pc' = "done"
  ELSE UNCHANGED <<promise, result, pc>>

(***************************************************************************)
(* reflect                                                                 *)
(***************************************************************************)
\* stdio that ignores DEBUG
StdioMode_AlwaysPipe == "pipe"

StdioMode == IF Truthy(penv["DEBUG"]) THEN "inherit" ELSE "pipe"

\* the spreads in the wrong order: the parent's variables win
ForkEnv_ParentLast ==
  Spread(Spread([k \in {"NEXUS_REFLECTION_LAYOUT"} |-> JSONstringify(layout.data)],
                getReflectionStageEnv("typegen")),
         penv)

ForkEnv ==
  Spread(Spread(penv, [k \in {"NEXUS_REFLECTION_LAYOUT"} |-> JSONstringify(layout.data)]),
         getReflectionStageEnv("typegen"))

\* a fork that reports success without waiting for the child
runTypegenReflectionAsSubProcess_NoWait ==
  /\ cp' = [state |-> "running", cwd |-> layout.projectRoot,
            stdio |-> StdioMode, env |-> ForkEnv]
  /\ promise' = "resolved"
  /\ result' = Success
  /\ pc' = "done"
  /\ UNCHANGED <<penv, appStarted, plugins, stageAtStart>>

runTypegenReflectionAsSubProcess ==
  /\ cp' = [state |-> "running", cwd |-> layout.projectRoot,
            stdio |-> StdioMode, env |-> ForkEnv]
  /\ promise' = "pending"
  /\ pc' = "awaitChild"
  /\ UNCHANGED <<penv, result, appStarted, plugins, stageAtStart>>

\* appRunner.start() called before the stage is set
runPluginsReflectionOnMainThread_StartFirst ==
  /\ appStarted' = TRUE
  /\ stageAtStart' = penv[StageVar]
  /\ setReflectionStage("plugin")
  /\ promise' = "pending"
  /\ pc' = "awaitStart"
  /\ UNCHANGED <<result, plugins, cp>>

runPluginsReflectionOnMainThread ==
  /\ setReflectionStage("plugin")
  /\ appStarted' = TRUE
  /\ stageAtStart' = penv'[StageVar]
  /\ promise' = "pending"
  /\ pc' = "awaitStart"
  /\ UNCHANGED <<result, plugins, cp>>

NotImplemented ==
  /\ promise' = "rejected"
  /\ result' = Thrown(NotImplementedError)
  /\ pc' = "done"
  /\ UNCHANGED <<penv, appStarted, plugins, cp, stageAtStart>>

\* the plugin branch tested before the artifacts branch
reflect_PluginsFirst ==
  /\ pc = "idle"
  /\ IF opts.usedPlugins = "true" /\ opts.onMainThread # "false"
     THEN runPluginsReflectionOnMainThread
     ELSE IF opts.artifacts = "true"
          THEN runTypegenReflectionAsSubProcess
          ELSE IF opts.usedPlugins = "true" /\ opts.onMainThread = "false"
               THEN NotImplemented
               ELSE runPluginsReflectionOnMainThread
  /\ UNCHANGED <<opts, layout, observed, terminal, penv0, startOutcome>>

\* the guard placed after the stage was set
reflect_LateGuard ==
  /\ pc = "idle"
  /\ IF opts.artifacts = "true"
     THEN runTypegenReflectionAsSubProcess
     ELSE IF opts.usedPlugins = "true" /\ opts.onMainThread = "false"
          THEN /\ setReflectionStage("plugin")
               /\ promise' = "rejected"
               /\ result' = Thrown(NotImplementedError)
               /\ pc' = "done"
               /\ UNCHANGED <<appStarted, plugins, cp, stageAtStart>>
          ELSE runPluginsReflectionOnMainThread
  /\ UNCHANGED <<opts, layout, observed, terminal, penv0, startOutcome>>

reflect ==
  /\ pc = "idle"
  /\ IF opts.artifacts = "true"
     THEN runTypegenReflectionAsSubProcess
     ELSE IF opts.usedPlugins = "true" /\ opts.onMainThread = "false"
          THEN NotImplemented
          ELSE runPluginsReflectionOnMainThread
  /\ UNCHANGED <<opts, layout, observed, terminal, penv0, startOutcome>>

(***************************************************************************)
(* runPluginsReflectionOnMainThread after the await                        *)
(***************************************************************************)
\* the application's start registers a plugin
AppUsePlugin ==
  /\ pc = "awaitStart"
  /\ \E p \in PluginSet \ plugins : plugins' = plugins \cup {p}
  /\ UNCHANGED <<opts, layout, penv, pc, promise, result, appStarted, cp,
                 observed, terminal, penv0, stageAtStart, startOutcome>>

\* await appRunner.start() completes: the try block runs to its return
StartCompletes ==
  /\ pc = "awaitStart"
  /\ removeReflectionStage
  /\ promise' = "resolved"
  /\ result' = SuccessPlugins(plugins)
  /\ pc' = "done"
  /\ startOutcome' = [kind |-> "completed", plugins |-> plugins]
  /\ UNCHANGED <<opts, layout, appStarted, plugins, cp, observed, terminal, penv0, stageAtStart>>

\* a start whose error escapes: no catch block
StartThrows_NoCatch ==
  /\ pc = "awaitStart"
  /\ \E e \in StartErrors :
       /\ promise' = "rejected"
       /\ result' = Thrown(Error(e))
       /\ startOutcome' = [kind |-> "threw", error |-> Error(e)]
  /\ pc' = "done"
  /\ UNCHANGED <<opts, layout, penv, appStarted, plugins, cp, observed, terminal, penv0, stageAtStart>>

\* a catch block that returns an error of its own instead of the one caught
StartThrows_OwnError ==
  /\ pc = "awaitStart"
  /\ \E e \in StartErrors :
       /\ promise' = "resolved"
       /\ result' = Failure(Error("startErr"))
       /\ startOutcome' = [kind |-> "threw", error |-> Error(e)]
  /\ pc' = "done"
  /\ UNCHANGED <<opts, layout, penv, appStarted, plugins, cp, observed, terminal, penv0, stageAtStart>>

StartThrows ==
  /\ pc = "awaitStart"
  /\ \E e \in StartErrors :
       /\ promise' = "resolved"
       /\ result' = Failure(Error(e))
       /\ startOutcome' = [kind |-> "threw", error |-> Error(e)]
  /\ pc' = "done"
  /\ UNCHANGED <<opts, layout, penv, appStarted, plugins, cp, observed, terminal, penv0, stageAtStart>>

(***************************************************************************)
(* The listeners registered on the child process                           *)
(***************************************************************************)
\* a listener that ends the run with the plugins of a success-plugin message
onMessage_PluginsEndRun(message) ==
  IF message.type = "success-typegen"
  THEN resolve(Success)
  ELSE IF message.type = "error"
       THEN resolve(Failure(deserializeError(message.data.serializedError)))
       ELSE resolve(SuccessPlugins(message.data.plugins))

\* a listener that takes every success-* message for the end of the run
onMessage_AnySuccess(message) ==
  IF message.type \in {"success-typegen", "success-plugin"}
  THEN resolve(Success)
  ELSE IF message.type = "error"
       THEN resolve(Failure(deserializeError(message.data.serializedError)))
       ELSE UNCHANGED <<promise, result, pc>>

onMessage(message) ==
  IF message.type = "success-typegen"
  THEN resolve(Success)
  ELSE IF message.type = "error"
       THEN resolve(Failure(deserializeError(message.data.serializedError)))
       ELSE UNCHANGED <<promise, result, pc>>

onError(err) == resolve(Failure(err))

onStderrData(chunk) == resolve(Failure(Error(chunk)))

\* a listener that tests the code for truthiness: null passes for 0
onExit_Truthy(code) ==
  IF code \notin {"0", "null"}
  THEN resolve(Failure(ExitError(code)))
  ELSE UNCHANGED <<promise, result, pc>>

onExit(code) ==
  IF code # "0"
  THEN resolve(Failure(ExitError(code)))
  ELSE UNCHANGED <<promise, result, pc>>

\* cp.stderr is null unless the child's stdio is piped: cp.stderr?.on(...)
HasStderrListener == cp.stdio = "pipe"

(***************************************************************************)
(* Events of the child process, as the parent's runtime emits them         *)
(***************************************************************************)
Emitted(ev) == observed' = Append(observed, ev)

CanEmit == cp.state \in {"running", "exited"} /\ Len(observed) + Len(terminal) < MaxEvents

Frame ==
  UNCHANGED <<opts, layout, penv, appStarted, plugins, penv0, stageAtStart, startOutcome>>

ChildMessage ==
  /\ CanEmit
  /\ \E m \in Messages :
       /\ onMessage(m)
       /\ Emitted([event |-> "message", message |-> m])
  /\ UNCHANGED <<cp, terminal>>
  /\ Frame

ChildError ==
  /\ CanEmit
  /\ \E e \in ProcessErrors :
       /\ onError(Error(e))
       /\ Emitted([event |-> "error", err |-> Error(e)])
  /\ UNCHANGED <<cp, terminal>>
  /\ Frame

\* the child writes a chunk to its stderr
ChildStderr ==
  /\ CanEmit
  /\ \E c \in Chunks :
       IF HasStderrListener
       THEN /\ onStderrData(c)
            /\ Emitted([event |-> "stderr", chunk |-> c])
            /\ UNCHANGED terminal
       ELSE /\ terminal' = Append(terminal, c)
            /\ UNCHANGED <<promise, result, pc, observed>>
  /\ UNCHANGED cp
  /\ Frame

ChildExit ==
  /\ CanEmit
  /\ cp.state = "running"
  /\ \E code \in ExitCodes :
       /\ onExit(code)
       /\ Emitted([event |-> "exit", code |-> code])
       /\ cp' = [cp EXCEPT !.state = "exited"]
  /\ UNCHANGED terminal
  /\ Frame

\* the child is gone and its channels are closed: no event follows
ChildClose ==
  /\ cp.state = "exited"
  /\ cp' = [cp EXCEPT !.state = "closed"]
  /\ UNCHANGED <<promise, result, pc, observed, terminal>>
  /\ Frame

(***************************************************************************)
(* Specification                                                           *)
(***************************************************************************)
Init ==
  /\ opts \in OptsSet
  /\ layout \in Layouts
  /\ penv \in [EnvNames -> {Unset, "", "1", "plugin"}]
  /\ penv["DEBUG"] \in {Unset, "", "1"}
  /\ penv["NEXUS_REFLECTION_LAYOUT"] \in {Unset, "1"}
  /\ penv[StageVar] \in {Unset, "plugin"}
  /\ penv0 = penv
  /\ stageAtStart = Unset
  /\ startOutcome = NotEnded
  /\ pc = "idle"
  /\ promise = "none"
  /\ result = NoResult
  /\ appStarted = FALSE
  /\ plugins = {}
  /\ cp = NoChild
  /\ observed = <<>>
  /\ terminal = <<>>

Next ==
  \/ reflect
  \/ AppUsePlugin
  \/ StartCompletes
  \/ StartThrows
  \/ ChildMessage
  \/ ChildError
  \/ ChildStderr
  \/ ChildExit
  \/ ChildClose

Spec == Init /\ [][Next]_vars

(***************************************************************************)
(* The subprocess as the specification describes it: it may report plugins *)
(* and write to its stderr, sends one terminal message, then exits.        *)
(***************************************************************************)
ProtoCanSend == cp.state = "running" /\ Len(observed) + Len(terminal) < MaxEvents

ForkScriptSendPlugins ==
  /\ ProtoCanSend
  /\ \E m \in {x \in Messages : x.type \notin TerminalTypes} :
       /\ onMessage(m)
       /\ Emitted([event |-> "message", message |-> m])
  /\ UNCHANGED <<cp, terminal>>
  /\ Frame

ForkScriptStderr ==
  /\ ProtoCanSend
  /\ \E c \in Chunks :
       IF HasStderrListener
       THEN /\ onStderrData(c)
            /\ Emitted([event |-> "stderr", chunk |-> c])
            /\ UNCHANGED terminal
       ELSE /\ terminal' = Append(terminal, c)
            /\ UNCHANGED <<promise, result, pc, observed>>
  /\ UNCHANGED cp
  /\ Frame

ForkScriptSendTerminal ==
  /\ cp.state = "running"
  /\ \E m \in {x \in Messages : x.type \in TerminalTypes} :
       /\ onMessage(m)
       /\ Emitted([event |-> "message", message |-> m])
  /\ cp' = [cp EXCEPT !.state = "reported"]
  /\ UNCHANGED terminal
  /\ Frame

\* a subprocess that may exit without having reported
ForkScriptExit_Silent ==
  /\ cp.state \in {"running", "reported"}
  /\ \E code \in ExitCodes :
       /\ onExit(code)
       /\ Emitted([event |-> "exit", code |-> code])
  /\ cp' = [cp EXCEPT !.state = "exited"]
  /\ UNCHANGED terminal
  /\ Frame

ForkScriptExit ==
  /\ cp.state = "reported"
  /\ \E code \in ExitCodes :
       /\ onExit(code)
       /\ Emitted([event |-> "exit", code |-> code])
  /\ cp' = [cp EXCEPT !.state = "exited"]
  /\ UNCHANGED terminal
  /\ Frame

NextProtocol ==
  \/ reflect
  \/ AppUsePlugin
  \/ StartCompletes
  \/ StartThrows
  \/ ForkScriptSendPlugins
  \/ ForkScriptStderr
  \/ ForkScriptSendTerminal
  \/ ForkScriptExit
  \/ ChildClose

SpecProtocol == Init /\ [][NextProtocol]_vars

(***************************************************************************)
(* Reading the history                                                     *)
(***************************************************************************)
SubprocessRun == opts.artifacts = "true" /\ pc # "idle"

NotImplementedCase ==
  opts.artifacts # "true" /\ opts.usedPlugins = "true" /\ opts.onMainThread = "false"

IsTagged(r) ==
  /\ "success" \in DOMAIN r
  /\ r.success => "error" \notin DOMAIN r
  /\ ~r.success => "error" \in DOMAIN r

IsTerminalMessage(ev) == ev.event = "message" /\ ev.message.type \in TerminalTypes

IsSuccessTypegen(ev) == ev.event = "message" /\ ev.message.type = "success-typegen"

\* an event on which the run fails: error message, 'error' event, stderr data, exit code other than 0
IsFailureEvent(ev) ==
  \/ ev.event = "message" /\ ev.message.type = "error"
  \/ ev.event = "error"
  \/ ev.event = "stderr"
  \/ ev.event = "exit" /\ ev.code # "0"

IsResolvingEvent(ev) == IsSuccessTypegen(ev) \/ IsFailureEvent(ev)

ResultOf(ev) ==
  CASE IsSuccessTypegen(ev) -> Success
    [] ev.event = "message" /\ ev.message.type = "error" ->
         Failure(Error(ev.message.data.serializedError))
    [] ev.event = "error" -> Failure(ev.err)
    [] ev.event = "stderr" -> Failure(Error(ev.chunk))
    [] ev.event = "exit" /\ ev.code # "0" -> Failure(ExitError(ev.code))
    [] OTHER -> NoResult

ResolvingIndexes == {i \in 1..Len(observed) : IsResolvingEvent(observed[i])}

IsFirstResolving(i) == i \in ResolvingIndexes /\ \A j \in ResolvingIndexes : i <= j

ExitIndexes == {i \in 1..Len(observed) : observed[i].event = "exit"}

ExitObserved == ExitIndexes # {}

TerminalMessageIndexes == {i \in 1..Len(observed) : IsTerminalMessage(observed[i])}

(***************************************************************************)
(* Properties                                                              *)
(***************************************************************************)

\* C1 (as stated): for every combination of the options the promise of
\* reflect() resolves to a tagged result and never rejects.
C1_NeverRejects ==
  /\ promise # "rejected"
  /\ promise = "resolved" => IsTagged(result)

\* C1 (amended): the promise of reflect() rejects only for usedPlugins true,
\* onMainThread false and artifacts unset, with the 'Not implemented' error;
\* for every other combination it never rejects, and whenever it resolves
\* the value is a success or a failure carrying an error.
C1_TaggedResultExceptNotImplemented ==
  /\ promise = "rejected" => NotImplementedCase /\ result = Thrown(NotImplementedError)
  /\ promise = "resolved" => ~NotImplementedCase /\ IsTagged(result)
  /\ promise \in {"none", "pending"} => result = NoResult

C1_Witness ==
  /\ promise = "resolved"
  /\ opts.artifacts # "true"
  /\ result = Failure(Error("startErr"))

C3_NotDeliveredBeforeExit ==
  (SubprocessRun /\ promise = "resolved") => ExitObserved

\* C3 (amended): the result of the subprocess run is not delivered before
\* the child was forked with its environment and an event of it was
\* observed; a failure naming an exit code is not delivered before the exit
\* event with that code; a result decided by a message, an 'error' event or
\* stderr data is delivered on that event, without awaiting the exit.
C3_DeliveredOnFirstEventAfterFork ==
  (opts.artifacts = "true" /\ promise = "resolved") =>
     /\ cp.state # "none"
     /\ cp.env = ForkEnv
     /\ Len(observed) >= 1
     /\ \A code \in ExitCodes :
          result = Failure(ExitError(code)) =>
            \E e \in ExitIndexes : observed[e].code = code
     /\ ~ExitObserved =>
          \E i \in 1..Len(observed) :
            observed[i].event # "exit" /\ result = ResultOf(observed[i])

C3_Witness ==
  /\ SubprocessRun
  /\ promise = "resolved"
  /\ result = Success
  /\ ~ExitObserved

\* C4: the promise of the subprocess run is resolved in every execution in
\* which the child has terminated: once the child is gone and its channels
\* are closed the promise is no longer pending.
C4_ResolvedOnceChildTerminated ==
  cp.state = "closed" => promise # "pending"
\* C5 (as stated): reflect() chooses one execution mode per call.  With
\* artifacts set it forks the subprocess and never starts the application
\* on the main thread nor sets the parent's reflection stage; with artifacts
\* unset it never forks and runs the plugin reflection on the main thread.
C5_OneModePerCall ==
  pc # "idle" =>
    IF opts.artifacts = "true"
    THEN cp.state # "none" /\ ~appStarted /\ penv[StageVar] = penv0[StageVar]
    ELSE cp.state = "none" /\ appStarted

\* C5 (amended): as stated, except that with artifacts unset, usedPlugins
\* true and onMainThread false the call runs neither mode: it never forks
\* and never starts the application on the main thread.
C5_OneModePerCallExceptNotImplemented ==
  /\ pc = "idle" => cp.state = "none" /\ ~appStarted
  /\ pc # "idle" =>
       IF opts.artifacts = "true"
       THEN cp.state # "none" /\ ~appStarted /\ penv[StageVar] = penv0[StageVar]
       ELSE /\ cp.state = "none"
            /\ appStarted <=> ~NotImplementedCase

C5_Witness ==
  /\ opts = [usedPlugins |-> "true", artifacts |-> "true", onMainThread |-> "true"]
  /\ cp.state = "running"
  /\ ~appStarted

\* C6: a call with usedPlugins true, onMainThread false and artifacts unset
\* fails with the 'Not implemented' error without starting the application,
\* without setting the reflection stage and without forking a child.
C6_NotImplementedBeforeAnySideEffect ==
  (NotImplementedCase /\ pc # "idle") =>
     /\ promise = "rejected"
     /\ result = Thrown(NotImplementedError)
     /\ ~appStarted
     /\ penv[StageVar] = penv0[StageVar]
     /\ cp = NoChild
     /\ plugins = {}

C6_Witness ==
  /\ NotImplementedCase
  /\ pc = "done"
  /\ promise = "rejected"

\* C7: the result of a subprocess run is decided once, by the first resolving
\* event observed (success-typegen message, error message, 'error' event,
\* stderr data, exit with a code other than 0): while none was observed the
\* promise is pending, afterwards the result is the one of that first event.
C7_DecidedByFirstResolvingEvent ==
  SubprocessRun =>
    /\ ResolvingIndexes = {} => promise = "pending" /\ result = NoResult
    /\ \A i \in ResolvingIndexes :
         IsFirstResolving(i) => promise = "resolved" /\ result = ResultOf(observed[i])

\* C7: no step changes a result that was delivered.
C7_DeliveredResultUnchanged ==
  promise = "resolved" => (promise' = promise /\ result' = result)

C7_DecidedExactlyOnce ==
  []C7_DecidedByFirstResolvingEvent /\ [][C7_DeliveredResultUnchanged]_vars

C7_Witness ==
  /\ result = Success
  /\ Len(observed) = 2
  /\ IsSuccessTypegen(observed[1])
  /\ observed[2] = [event |-> "exit", code |-> "1"]

\* C8: a subprocess run delivers {success: true} if and only if the parent
\* received a success-typegen message before any error message, 'error'
\* event, stderr data or exit with a code other than 0.
C8_SuccessIffTypegenFirst ==
  SubprocessRun =>
    ((promise = "resolved" /\ result = Success)
       <=> \E i \in 1..Len(observed) :
             /\ IsSuccessTypegen(observed[i])
             /\ \A j \in 1..(i - 1) : ~IsFailureEvent(observed[j]))

C8_Witness ==
  /\ result = Success
  /\ Len(observed) = 3
  /\ observed[1].event = "message" /\ observed[1].message.type = "success-plugin"
  /\ IsSuccessTypegen(observed[2])
  /\ observed[3] = [event |-> "exit", code |-> "0"]

ExitStep ==
  /\ Len(observed') = Len(observed) + 1
  /\ observed'[Len(observed')].event = "exit"

ExitStepCode == observed'[Len(observed')].code

\* C9: on the exit event, a code other than 0 (null included) fails a run
\* that is still unresolved with an error naming that code; a code of 0
\* resolves nothing, and no exit changes an earlier result.
C9_ExitStep ==
  ExitStep =>
    /\ (ExitStepCode # "0" /\ promise = "pending") =>
         (promise' = "resolved" /\ result' = Failure(ExitError(ExitStepCode)))
    /\ ExitStepCode = "0" => (promise' = promise /\ result' = result)
    /\ promise # "pending" => (promise' = promise /\ result' = result)

C9_ExitCode == [][C9_ExitStep]_vars

C9_Witness ==
  /\ Len(observed) = 2
  /\ observed[1].event = "message" /\ observed[1].message.type = "success-plugin"
  /\ observed[2] = [event |-> "exit", code |-> "null"]
  /\ result = Failure(ExitError("null"))

\* C10: with piped stdio (DEBUG unset, or empty: the code tests DEBUG for
\* truthiness) a chunk on the child's stderr that precedes every resolving
\* event makes the run a failure carrying that chunk, whatever follows; with
\* inherited stdio (DEBUG set to a non-empty value) the parent observes no
\* stderr data.
C10_StderrState ==
  cp.state # "none" =>
    /\ penv["DEBUG"] = Unset => cp.stdio = "pipe"
    /\ cp.stdio = "inherit" <=> penv["DEBUG"] \notin {Unset, ""}
    /\ cp.stdio = "pipe" =>
         /\ terminal = <<>>
         /\ \A i \in 1..Len(observed) :
              (observed[i].event = "stderr" /\ IsFirstResolving(i)) =>
                 (promise = "resolved" /\ result = Failure(Error(observed[i].chunk)))
    /\ cp.stdio = "inherit" =>
         \A i \in 1..Len(observed) : observed[i].event # "stderr"

\* C10: with inherited stdio a write to the child's stderr leaves the
\* promise and its result as they were.
C10_StderrStep ==
  terminal' # terminal => (promise' = promise /\ result' = result)

C10_StderrFailsOnlyWhenPiped == []C10_StderrState /\ [][C10_StderrStep]_vars

C10_Witness ==
  /\ cp.state # "none"
  /\ cp.stdio = "pipe"
  /\ Len(observed) = 3
  /\ observed[1] = [event |-> "stderr", chunk |-> "c2"]
  /\ IsSuccessTypegen(observed[2])
  /\ observed[3] = [event |-> "exit", code |-> "0"]
  /\ result = Failure(Error("c2"))

C10_WitnessInherit ==
  /\ cp.state # "none"
  /\ cp.stdio = "inherit"
  /\ terminal = <<"c1">>
  /\ Len(observed) = 2
  /\ IsSuccessTypegen(observed[1])
  /\ result = Success
MessageStep ==
  /\ Len(observed') = Len(observed) + 1
  /\ observed'[Len(observed')].event = "message"

MessageStepType == observed'[Len(observed')].message.type

\* C11: of the three message shapes only success-typegen and error end the
\* run: either resolves a run that is still pending, while a success-plugin
\* message leaves the run as it was and changes nothing in the parent's
\* state.
C11_MessageStep ==
  MessageStep =>
    /\ MessageStepType \in {"success-plugin", "success-typegen", "error"}
    /\ (MessageStepType \in TerminalTypes /\ promise = "pending") =>
         (promise' = "resolved" /\ result' = ResultOf(observed'[Len(observed')]))
    /\ MessageStepType = "success-plugin" =>
         /\ promise' = promise /\ result' = result /\ pc' = pc
         /\ penv' = penv /\ plugins' = plugins /\ appStarted' = appStarted
         /\ cp' = cp /\ terminal' = terminal

C11_OnlyTypegenAndErrorAreTerminal == [][C11_MessageStep]_vars

C11_Witness ==
  /\ Len(observed) = 2
  /\ observed[1].event = "message" /\ observed[1].message.type = "success-plugin"
  /\ observed[2].event = "message" /\ observed[2].message.type = "success-plugin"
  /\ promise = "pending"
  /\ plugins = {}
\* C12: in runPluginsReflectionOnMainThread the reflection stage is
\* 'plugin' when the application's start is called and for as long as the
\* start runs; when the start has completed without error the stage is
\* removed and the success result is returned.
C12_StagePluginDuringStart ==
  /\ appStarted => stageAtStart = "plugin"
  /\ pc = "awaitStart" => (appStarted /\ penv[StageVar] = "plugin" /\ startOutcome = NotEnded)
  /\ startOutcome.kind = "completed" =>
       /\ penv[StageVar] = Unset
       /\ promise = "resolved" /\ result.success

C12_Witness ==
  /\ startOutcome.kind = "completed"
  /\ penv0[StageVar] = Unset
  /\ plugins = {"p1", "p2"}
  /\ penv[StageVar] = Unset
\* C13: whenever runPluginsReflectionOnMainThread has returned, with a
\* success or with a failure, the reflection stage it set has been removed.
C13_StageRemovedOnReturn ==
  (startOutcome # NotEnded /\ promise = "resolved") => penv[StageVar] = Unset

\* C14: an error raised by the application's start is returned as the
\* failure carrying that same error, and the promise does not reject; a
\* start that completes without error returns success with exactly the
\* plugins the application's state held when the start completed.
C14_StartOutcomeReturned ==
  /\ startOutcome.kind = "threw" =>
       (promise = "resolved" /\ result = Failure(startOutcome.error))
  /\ startOutcome.kind = "completed" =>
       /\ promise = "resolved"
       /\ result = SuccessPlugins(startOutcome.plugins)
       /\ result.plugins = plugins
  /\ (pc = "done" /\ appStarted) => startOutcome # NotEnded

C14_Witness ==
  /\ startOutcome = [kind |-> "threw", error |-> Error("startErr2")]
  /\ plugins = {"p1"}
  /\ result = Failure(Error("startErr2"))

\* C15: the environment of the forked subprocess is the parent's environment
\* with NEXUS_REFLECTION_LAYOUT replaced by the serialized layout data and
\* the stage variable replaced by 'typegen', whatever the parent held under
\* those names; the subprocess run leaves the parent's environment, its
\* reflection stage included, as it was when reflect() was called.
C15_ForkEnvironment ==
  /\ cp.state # "none" =>
       /\ DOMAIN cp.env = EnvNames
       /\ cp.env[StageVar] = "typegen"
       /\ cp.env["NEXUS_REFLECTION_LAYOUT"] = JSONstringify(layout.data)
       /\ \A k \in EnvNames \ {StageVar, "NEXUS_REFLECTION_LAYOUT"} : cp.env[k] = penv0[k]
       /\ cp.cwd = layout.projectRoot
  /\ opts.artifacts = "true" => penv = penv0

C15_Witness ==
  /\ cp.state = "running"
  /\ penv0[StageVar] = "plugin"
  /\ penv0["NEXUS_REFLECTION_LAYOUT"] = "1"
  /\ penv0["DEBUG"] = "1"
  /\ layout.data = "d2"
  /\ cp.env = [k \in EnvNames |->
                 IF k = StageVar THEN "typegen"
                 ELSE IF k = "DEBUG" THEN "1" ELSE "json:d2"]
  /\ penv[StageVar] = "plugin"

====
